---- MODULE Spec2Model ----
(***************************************************************************)
(* Model of importmds.py: the single pass of process_file over the top     *)
(* level nodes of a parsed markdown document (segmentation into Items at   *)
(* level-1 headings, merge of fenced metadata blocks into the current      *)
(* item's metadata, rendering of titles and bodies) and the batch loop of  *)
(* process_files.                                                          *)
(*                                                                         *)
(* Python objects that are shared by reference (the metadata dicts) live   *)
(* in a heap; a variable or an Item field holds a reference into it.       *)
(***************************************************************************)
EXTENDS Integers, Sequences, FiniteSets, TLC

VARIABLES
    file,           \* the input: front matter text and the parsed top-level nodes
    doc,            \* doc.children, once md.parse has run
    i,              \* position of the for loop in doc.children
    base_metadata,  \* reference to the front-matter dict (None before the parse)
    items,          \* the result list
    title,          \* None or a string
    metadata,       \* None or a reference to the current item's dict
    body,           \* list of nodes of the current item
    heap,           \* the dict objects, by reference
    pc,             \* "open", "loop", "done" (returned) or "raised"
    err,            \* the exception that left process_file, "" if none
    files,          \* process_files: the files the glob yields, in order
    groups,         \* process_files: the ItemGroups appended so far
    bpc             \* process_files: "loop", "done" (returned) or "raised";
                    \* "idle" while process_file is looked at on its own

vars == <<file, doc, i, base_metadata, items, title, metadata, body, heap, pc,
          err, files, groups, bpc>>

passVars == <<file, doc, i, base_metadata, items, title, metadata, body, heap,
              pc, err>>

batchVars == <<files, groups, bpc>>

-----------------------------------------------------------------------------
(* Bounds *)

MaxNodes == 3

MaxFiles == 3

-----------------------------------------------------------------------------
(* Python values *)

None == [tag |-> "None"]

Str(s) == [tag |-> "str", s |-> s]

Ref(n) == [tag |-> "ref", ref |-> n]

\* a metadata value: a number, or a nested mapping (replaced as a whole)
IntV(n) == [kind |-> "int", int |-> n, dict |-> <<>>]

DictV(d) == [kind |-> "dict", int |-> 0, dict |-> d]

EmptyDict == <<>>

\* Python truthiness of `title`: None and "" are both false
Truthy(t) == t # None /\ t.s # ""

-----------------------------------------------------------------------------
(* Nodes of the parsed document (marko.block) *)

RawText(s) == [type |-> "RawText", level |-> 0, children |-> <<>>,
               lang |-> "", extra |-> "", text |-> s]

Heading(level, children) ==
    [type |-> "Heading", level |-> level, children |-> children,
     lang |-> "", extra |-> "", text |-> ""]

FencedCode(lang, extra, text) ==
    [type |-> "FencedCode", level |-> 0, children |-> <<>>,
     lang |-> lang, extra |-> extra, text |-> text]

Paragraph(text) ==
    [type |-> "Paragraph", level |-> 0, children |-> <<>>,
     lang |-> "", extra |-> "", text |-> text]

\* the texts of the fenced blocks of the model
Texts == {"k = 1", "j = 3", "k: 2", "k: {y: 1}", "- [j, 1]\n- k", "k: ["}

Nodes ==
    {Heading(1, <<RawText("A")>>), Heading(1, <<RawText("B")>>),
     Heading(1, <<>>), Heading(2, <<RawText("S")>>), Paragraph("P"),
     FencedCode("toml", "metadata", "k = 1"),
     FencedCode("toml", "metadata", "j = 3"),
     FencedCode("toml", "metadata", "k: 2"),
     FencedCode("yaml", "metadata", "k: 2"),
     FencedCode("yaml", "metadata", "k: {y: 1}"),
     FencedCode("yaml", "metadata", "- [j, 1]\n- k"),
     FencedCode("yaml", "metadata", "k = 1"),
     FencedCode("yaml", "metadata", "k: ["),
     FencedCode("toml", "", "k = 1"),
     FencedCode("python", "metadata", "k = 1")}

Docs == UNION {[1..n -> Nodes] : n \in 0..MaxNodes}

FrontMatters == {"", "k: 0", "k: {x: 0}", "k: ["}

Files == [fm : FrontMatters, nodes : Docs]

-----------------------------------------------------------------------------
(* The loaders: what toml.loads, yaml.safe_load and frontmatter.parse give  *)
(* on the texts of the model.  A loader returns a Python value or raises.   *)

PyDict(d) == [kind |-> "dict", dict |-> d, list |-> <<>>, exc |-> ""]

PyStr == [kind |-> "str", dict |-> <<>>, list |-> <<>>, exc |-> ""]

PyList(l) == [kind |-> "list", dict |-> <<>>, list |-> l, exc |-> ""]

Raises(e) == [kind |-> "raise", dict |-> <<>>, list |-> <<>>, exc |-> e]

\* an element of a YAML sequence: a [key, value] pair, or anything else
Pair(k, v) == [pair |-> TRUE, key |-> k, value |-> v]

NotAPair == [pair |-> FALSE, key |-> "", value |-> IntV(0)]

toml_loads(text) ==
    CASE text = "k = 1" -> PyDict([k |-> IntV(1)])
      [] text = "j = 3" -> PyDict([j |-> IntV(3)])
      [] OTHER -> Raises("TomlDecodeError")

yaml_safe_load(text) ==
    CASE text = "k: 2" -> PyDict([k |-> IntV(2)])
      [] text = "k: {y: 1}" -> PyDict([k |-> DictV([y |-> 1])])
      [] text = "- [j, 1]\n- k" -> PyList(<<Pair("j", IntV(1)), NotAPair>>)
      [] text = "k = 1" -> PyStr
      [] text = "j = 3" -> PyStr
      [] OTHER -> Raises("YAMLError")

frontmatter_parse(text) ==
    CASE text = "" -> PyDict(EmptyDict)
      [] text = "k: 0" -> PyDict([k |-> IntV(0)])
      [] text = "k: {x: 0}" -> PyDict([k |-> DictV([x |-> 0])])
      [] OTHER -> Raises("YAMLError")

-----------------------------------------------------------------------------
(* dict.update *)

SetItem(d, k, v) ==
    [key \in DOMAIN d \cup {k} |-> IF key = k THEN v ELSE d[key]]

\* variant of MergeDict: nested mappings are merged key by key
MergeDictDeep(d, m) ==
    [key \in DOMAIN d \cup DOMAIN m |->
        IF key \notin DOMAIN m THEN d[key]
        ELSE IF key \in DOMAIN d /\ d[key].kind = "dict" /\ m[key].kind = "dict"
        THEN DictV([n \in DOMAIN d[key].dict \cup DOMAIN m[key].dict |->
                      IF n \in DOMAIN m[key].dict THEN m[key].dict[n]
                      ELSE d[key].dict[n]])
        ELSE m[key]]

\* update from a mapping: every key of m overwrites, the other keys stay
MergeDict(d, m) ==
    [key \in DOMAIN d \cup DOMAIN m |-> IF key \in DOMAIN m THEN m[key] ELSE d[key]]

\* update from a sequence: pairs are stored one by one, the first element
\* that is no pair raises and leaves the earlier pairs stored
RECURSIVE MergeFromSeq(_, _)
MergeFromSeq(d, l) ==
    IF l = <<>> THEN [dict |-> d, exc |-> ""]
    ELSE IF ~Head(l).pair THEN [dict |-> d, exc |-> "ValueError"]
    ELSE MergeFromSeq(SetItem(d, Head(l).key, Head(l).value), Tail(l))

DictUpdate(d, arg) ==
    CASE arg.kind = "dict" -> [dict |-> MergeDict(d, arg.dict), exc |-> ""]
      [] arg.kind = "list" -> MergeFromSeq(d, arg.list)
      [] arg.kind = "str" -> [dict |-> d, exc |-> "ValueError"]
      [] OTHER -> [dict |-> d, exc |-> "TypeError"]

-----------------------------------------------------------------------------
(* Rendering (items_to_md: a Document around the nodes, rendered back to    *)
(* markdown text).  A code fence is written ~~~ here.                       *)

Hashes(level) == IF level = 1 THEN "#" ELSE "##"

RECURSIVE items_to_md(_)
RenderElement(e) ==
    CASE e.type = "RawText" -> e.text
      [] e.type = "Heading" ->
            Hashes(e.level) \o " " \o items_to_md(e.children) \o "\n"
      [] e.type = "FencedCode" ->
            "~~~" \o e.lang \o (IF e.extra = "" THEN "" ELSE " " \o e.extra)
                  \o "\n" \o e.text \o "\n~~~\n"
      [] OTHER -> e.text \o "\n"

items_to_md(childs) ==
    IF childs = <<>> THEN ""
    ELSE RenderElement(Head(childs)) \o items_to_md(Tail(childs))

-----------------------------------------------------------------------------
(* process_file, as operators on the record of its locals *)

Item(t, b, m) == [title |-> t, body |-> b, metadata |-> m]

ItemGroup(path, its) == [path |-> path, items |-> its]

\* isinstance(node, Heading) and node.level == 1
IsLevel1Heading(node) == node.type = "Heading" /\ node.level = 1

\* variant of IsTomlMetadata: the marker is not looked at
IsTomlMetadataAnyExtra(node) == node.type = "FencedCode" /\ node.lang = "toml"

IsTomlMetadata(node) ==
    node.type = "FencedCode" /\ node.lang = "toml" /\ node.extra = "metadata"

IsYamlMetadata(node) ==
    node.type = "FencedCode" /\ node.lang = "yaml" /\ node.extra = "metadata"

\* variant of FlushGuard: `if title is not None:`
FlushGuardNotNone(t) == t # None

\* the guard of both flushes: `if title:`
FlushGuard(t) == Truthy(t)

\* if title: items.append(Item(title, items_to_md(md, body), metadata))
Flush(s) ==
    IF FlushGuard(s.title)
    THEN [s EXCEPT !.items =
            Append(s.items, Item(s.title.s, items_to_md(s.body), s.metadata))]
    ELSE s

\* variant of FreshMetadata: metadata = base_metadata, the same dict object
SharedMetadata(s) == [s EXCEPT !.metadata = s.base_metadata]

\* variant of FreshMetadata: the current dict is reset in place
\* (metadata.clear(); metadata.update(base_metadata)) once there is one
ResetInPlace(s) ==
    IF s.metadata = None
    THEN [s EXCEPT !.heap = Append(s.heap, s.heap[s.base_metadata.ref]),
                   !.metadata = Ref(Len(s.heap) + 1)]
    ELSE [s EXCEPT !.heap[s.metadata.ref] = s.heap[s.base_metadata.ref]]

\* metadata = dict(base_metadata): a new dict object with the same entries
FreshMetadata(s) ==
    [s EXCEPT !.heap = Append(s.heap, s.heap[s.base_metadata.ref]),
              !.metadata = Ref(Len(s.heap) + 1)]

Raise(s, e) == [s EXCEPT !.pc = "raised", !.err = e]

\* locals at entry, then frontmatter.parse and md.parse
Start(f) ==
    LET fm == frontmatter_parse(f.fm)
        s0 == [items |-> <<>>, title |-> None, metadata |-> None, body |-> <<>>,
               heap |-> <<>>, base_metadata |-> None, pc |-> "open", err |-> ""]
    IN  IF fm.kind = "raise" THEN Raise(s0, fm.exc)
        ELSE [s0 EXCEPT !.heap = <<fm.dict>>, !.base_metadata = Ref(1),
                        !.pc = "loop"]

\* variant of OnHeading: `body = []` is missing
OnHeadingKeepBody(s, node) ==
    [FreshMetadata(Flush(s)) EXCEPT !.title = Str(items_to_md(node.children))]

\* the branch of a level-1 heading
OnHeading(s, node) ==
    LET f == FreshMetadata(Flush(s))
    IN  [f EXCEPT !.title = Str(items_to_md(node.children)), !.body = <<>>]

\* variant of MetadataUpdate: a block met while metadata is None is skipped
MetadataUpdateSkipNone(s, loaded) ==
    IF s.metadata = None THEN s
    ELSE IF loaded.kind = "raise" THEN Raise(s, loaded.exc)
    ELSE LET r == DictUpdate(s.heap[s.metadata.ref], loaded)
             h == [s EXCEPT !.heap[s.metadata.ref] = r.dict]
         IN  IF r.exc = "" THEN h ELSE Raise(h, r.exc)

\* metadata.update(loaded), `loaded` being what the loader gives on the
\* block's text: the attribute is looked up on `metadata` before the loader
\* runs, so metadata = None raises whatever the block holds
MetadataUpdate(s, loaded) ==
    IF s.metadata = None THEN Raise(s, "AttributeError")
    ELSE IF loaded.kind = "raise" THEN Raise(s, loaded.exc)
    ELSE LET r == DictUpdate(s.heap[s.metadata.ref], loaded)
             h == [s EXCEPT !.heap[s.metadata.ref] = r.dict]
         IN  IF r.exc = "" THEN h ELSE Raise(h, r.exc)

OnTomlMetadata(s, node) == MetadataUpdate(s, toml_loads(node.text))

OnYamlMetadata(s, node) == MetadataUpdate(s, yaml_safe_load(node.text))

\* body.append(node)
OnBody(s, node) == [s EXCEPT !.body = Append(s.body, node)]

\* one iteration of `for node in doc.children`
NodeStep(s, node) ==
    IF IsLevel1Heading(node) THEN OnHeading(s, node)
    ELSE IF IsTomlMetadata(node) THEN OnTomlMetadata(s, node)
    ELSE IF IsYamlMetadata(node) THEN OnYamlMetadata(s, node)
    ELSE OnBody(s, node)

\* variant of Finish: the flush after the loop is missing
FinishNoFlush(s) == [s EXCEPT !.pc = "done"]

\* after the loop: the last flush, and return items
Finish(s) == [Flush(s) EXCEPT !.pc = "done"]

RECURSIVE RunLoop(_, _)
RunLoop(s, nodes) ==
    IF s.pc = "raised" THEN s
    ELSE IF nodes = <<>> THEN Finish(s)
    ELSE RunLoop(NodeStep(s, Head(nodes)), Tail(nodes))

\* process_file as a whole: the final locals, pc = "done" or "raised"
ProcessFile(f) == RunLoop(Start(f), f.nodes)

-----------------------------------------------------------------------------
(* The pass of process_file, one action per step *)

Cur == [items |-> items, title |-> title, metadata |-> metadata, body |-> body,
        heap |-> heap, base_metadata |-> base_metadata, pc |-> pc, err |-> err]

Install(s) ==
    /\ items' = s.items
    /\ title' = s.title
    /\ metadata' = s.metadata
    /\ body' = s.body
    /\ heap' = s.heap
    /\ base_metadata' = s.base_metadata
    /\ pc' = s.pc
    /\ err' = s.err

AtNode == pc = "loop" /\ i <= Len(doc)

\* in the loop a step that does not raise moves on to the next node
Advance(s) == i' = IF s.pc = "raised" THEN i ELSE i + 1

Open ==
    /\ pc = "open"
    /\ LET s == Start(file)
       IN  /\ Install(s)
           /\ doc' = IF s.pc = "raised" THEN <<>> ELSE file.nodes
    /\ i' = 1
    /\ UNCHANGED <<file, batchVars>>

HeadingNode ==
    /\ AtNode /\ IsLevel1Heading(doc[i])
    /\ LET s == OnHeading(Cur, doc[i]) IN Install(s) /\ Advance(s)
    /\ UNCHANGED <<file, doc, batchVars>>

TomlMetadataNode ==
    /\ AtNode /\ ~IsLevel1Heading(doc[i]) /\ IsTomlMetadata(doc[i])
    /\ LET s == OnTomlMetadata(Cur, doc[i]) IN Install(s) /\ Advance(s)
    /\ UNCHANGED <<file, doc, batchVars>>

YamlMetadataNode ==
    /\ AtNode /\ ~IsLevel1Heading(doc[i]) /\ ~IsTomlMetadata(doc[i])
    /\ IsYamlMetadata(doc[i])
    /\ LET s == OnYamlMetadata(Cur, doc[i]) IN Install(s) /\ Advance(s)
    /\ UNCHANGED <<file, doc, batchVars>>

BodyNode ==
    /\ AtNode /\ ~IsLevel1Heading(doc[i]) /\ ~IsTomlMetadata(doc[i])
    /\ ~IsYamlMetadata(doc[i])
    /\ LET s == OnBody(Cur, doc[i]) IN Install(s) /\ Advance(s)
    /\ UNCHANGED <<file, doc, batchVars>>

Return ==
    /\ pc = "loop" /\ i > Len(doc)
    /\ Install(Finish(Cur))
    /\ UNCHANGED <<file, doc, i, batchVars>>

Init ==
    /\ file \in Files
    /\ doc = <<>>
    /\ i = 1
    /\ base_metadata = None
    /\ items = <<>>
    /\ title = None
    /\ metadata = None
    /\ body = <<>>
    /\ heap = <<>>
    /\ pc = "open"
    /\ err = ""
    /\ files = <<>>
    /\ groups = <<>>
    /\ bpc = "idle"

Next ==
    \/ Open
    \/ HeadingNode
    \/ TomlMetadataNode
    \/ YamlMetadataNode
    \/ BodyNode
    \/ Return

Spec == Init /\ [][Next]_vars

-----------------------------------------------------------------------------
(* process_files: the batch loop *)

\* the Items of a finished call, each with the entries of its metadata dict
ItemsOf(s) ==
    [j \in 1..Len(s.items) |->
        Item(s.items[j].title, s.items[j].body,
             s.heap[s.items[j].metadata.ref])]

\* the files of a batch: well formed ones, and one of each kind of error
BatchFiles ==
    [fm : {"", "k: ["},
     nodes : {<<>>,
              <<Heading(1, <<RawText("A")>>), Paragraph("P")>>,
              <<FencedCode("toml", "metadata", "k = 1"),
                Heading(1, <<RawText("A")>>)>>,
              <<Heading(1, <<RawText("B")>>),
                FencedCode("yaml", "metadata", "k: [")>>}]

Batches == UNION {[1..n -> BatchFiles] : n \in 0..MaxFiles}

\* the file the glob yields next: one per ItemGroup appended so far
NextFile == Len(groups) + 1

\* one iteration of `for file_path in ...glob(...)`: process_file is called
\* with nothing around it, so what it raises leaves process_files too
ProcessNextFile ==
    /\ bpc = "loop" /\ NextFile <= Len(files)
    /\ LET r == ProcessFile(files[NextFile])
       IN  IF r.pc = "raised"
           THEN bpc' = "raised" /\ UNCHANGED groups
           ELSE /\ groups' = Append(groups, ItemGroup(NextFile, ItemsOf(r)))
                /\ UNCHANGED bpc
    /\ UNCHANGED <<files, passVars>>

ReturnGroups ==
    /\ bpc = "loop" /\ NextFile > Len(files)
    /\ bpc' = "done"
    /\ UNCHANGED <<files, groups, passVars>>

BatchInit ==
    /\ files \in Batches
    /\ groups = <<>>
    /\ bpc = "loop"
    /\ file = [fm |-> "", nodes |-> <<>>]
    /\ doc = <<>>
    /\ i = 1
    /\ base_metadata = None
    /\ items = <<>>
    /\ title = None
    /\ metadata = None
    /\ body = <<>>
    /\ heap = <<>>
    /\ pc = "open"
    /\ err = ""

BatchNext ==
    \/ ProcessNextFile
    \/ ReturnGroups

SpecBatch == BatchInit /\ [][BatchNext]_vars

-----------------------------------------------------------------------------
(* The vocabulary of the claims, over the input document *)

ClaimIsH1(n) == n.type = "Heading" /\ n.level = 1

ClaimIsMetadataBlock(n) ==
    n.type = "FencedCode" /\ n.lang \in {"toml", "yaml"} /\ n.extra = "metadata"

RenderedTitle(n) == items_to_md(n.children)

H1Positions(nodes) == {m \in 1..Len(nodes) : ClaimIsH1(nodes[m])}

\* the level-1 headings whose rendered title is not the empty string
TitledPositions(nodes) ==
    {m \in H1Positions(nodes) : RenderedTitle(nodes[m]) # ""}

\* the j-th smallest element of a set of positions
Nth(S, j) == CHOOSE m \in S : Cardinality({x \in S : x < m}) = j - 1

\* the last position of the segment opened by the heading at position m
SegmentEnd(nodes, m) ==
    LET later == {h \in H1Positions(nodes) : h > m}
    IN  IF later = {} THEN Len(nodes)
        ELSE (CHOOSE h \in later : \A x \in later : h <= x) - 1

\* the nodes between the heading at m and the next level-1 heading
SegmentNodes(nodes, m) == SubSeq(nodes, m + 1, SegmentEnd(nodes, m))

NotMetadataBlock(n) == ~ClaimIsMetadataBlock(n)

Returned == pc = "done"

EmptyHeadingIn(nodes) ==
    \E m \in H1Positions(nodes) : RenderedTitle(nodes[m]) = ""

-----------------------------------------------------------------------------
(* C1 *)

\* C1 as stated: a returned item list has one Item per level-1 heading, the
\* j-th Item carrying the rendered title of the j-th level-1 heading.
C1_OnePerHeading ==
    Returned =>
        /\ Len(items) = Cardinality(H1Positions(file.nodes))
        /\ \A j \in 1..Len(items) :
              items[j].title =
                  RenderedTitle(file.nodes[Nth(H1Positions(file.nodes), j)])

\* C1 amended: a returned item list has one Item per level-1 heading whose
\* rendered title is non-empty, the j-th Item carrying the rendered title of
\* the j-th such heading; a level-1 heading with an empty title yields none.
C1_OnePerTitledHeading ==
    Returned =>
        /\ Len(items) = Cardinality(TitledPositions(file.nodes))
        /\ \A j \in 1..Len(items) :
              items[j].title =
                  RenderedTitle(file.nodes[Nth(TitledPositions(file.nodes), j)])

C1_Witness ==
    /\ Returned
    /\ Len(items) = 2
    /\ items[1].title # items[2].title
    /\ EmptyHeadingIn(file.nodes)

-----------------------------------------------------------------------------
(* C2 *)

\* the document from its first level-1 heading on
FromFirstHeading(nodes) ==
    IF H1Positions(nodes) = {} THEN <<>>
    ELSE SubSeq(nodes, Nth(H1Positions(nodes), 1), Len(nodes))

\* C2: a document without a level-1 heading never has an Item, and the
\* returned Items are those of the document with everything before its
\* first level-1 heading removed: no node before that heading is in a body.
C2_NothingBeforeFirstHeading ==
    /\ H1Positions(file.nodes) = {} => items = <<>>
    /\ Returned =>
          ItemsOf(Cur) =
              ItemsOf(ProcessFile([file EXCEPT
                                     !.nodes = FromFirstHeading(file.nodes)]))

C2_Witness ==
    /\ Returned
    /\ Len(items) >= 1
    /\ Len(file.nodes) >= 2
    /\ ~ClaimIsH1(file.nodes[1])
    /\ ClaimIsH1(file.nodes[2])

-----------------------------------------------------------------------------
(* C8 *)

\* C8: every Item in the result list has a non-empty title, at every step.
C8_TitleNonEmpty == \A j \in 1..Len(items) : items[j].title # ""

\* an Item with an empty body is returned from a document that also holds
\* a level-1 heading without a title
C8_Witness ==
    /\ Returned
    /\ EmptyHeadingIn(file.nodes)
    /\ \E j \in 1..Len(items) : items[j].body = ""

-----------------------------------------------------------------------------
(* C10 *)

\* C10: the body of the j-th returned Item is the rendering of the nodes
\* between its heading and the next level-1 heading that are no metadata
\* block (toml or yaml with the marker), in document order; deeper
\* headings and fenced blocks lacking the language or the marker are in it.
C10_BodyIsSegment ==
    Returned =>
        /\ Len(items) = Cardinality(TitledPositions(file.nodes))
        /\ \A j \in 1..Len(items) :
              items[j].body =
                  items_to_md(SelectSeq(
                      SegmentNodes(file.nodes,
                                   Nth(TitledPositions(file.nodes), j)),
                      NotMetadataBlock))

C10_Witness ==
    /\ Returned
    /\ Len(items) = 1
    /\ file.nodes = <<Heading(1, <<RawText("A")>>),
                      Heading(2, <<RawText("S")>>),
                      FencedCode("toml", "", "k = 1")>>
    /\ items[1].body = "## S\n~~~toml\nk = 1\n~~~\n"

-----------------------------------------------------------------------------
(* Metadata, as the claims state it *)

\* the front-matter mapping of the input
BaseDict == frontmatter_parse(file.fm).dict

\* the mapping a metadata block holds, read in the format of its language
BlockDict(n) ==
    IF n.lang = "toml" THEN toml_loads(n.text).dict
    ELSE yaml_safe_load(n.text).dict

\* the metadata blocks of the segment opened by the heading at m, in order
SegmentBlocks(nodes, m) ==
    SelectSeq(SegmentNodes(nodes, m), ClaimIsMetadataBlock)

\* base merged with the blocks, one after the other, later keys overwriting
RECURSIVE MergedWith(_, _)
MergedWith(d, blocks) ==
    IF blocks = <<>> THEN d
    ELSE LET b == BlockDict(Head(blocks))
         IN  MergedWith([key \in DOMAIN d \cup DOMAIN b |->
                            IF key \in DOMAIN b THEN b[key] ELSE d[key]],
                        Tail(blocks))

\* the entries of the metadata of the j-th Item of the result list
MetadataOf(j) == heap[items[j].metadata.ref]

HeadingOf(j) == Nth(TitledPositions(file.nodes), j)

ClaimKeys == {"k", "j", "z"}

-----------------------------------------------------------------------------
(* C3 *)

\* C3: the metadata of every returned Item is the front-matter mapping
\* merged with the metadata blocks of its own segment and no other, its keys
\* come from the front matter or its own blocks, every Item has a dict of
\* its own, and the front-matter dict is never modified.
C3_NoLeak ==
    /\ base_metadata # None => heap[base_metadata.ref] = BaseDict
    /\ \A j \in 1..Len(items) :
          /\ items[j].metadata # base_metadata
          /\ \A l \in 1..Len(items) :
                l # j => items[l].metadata # items[j].metadata
    /\ Returned =>
          \A j \in 1..Len(items) :
              LET own == SegmentBlocks(file.nodes, HeadingOf(j))
              IN  /\ MetadataOf(j) = MergedWith(BaseDict, own)
                  /\ DOMAIN MetadataOf(j) \subseteq
                        DOMAIN BaseDict \cup
                        UNION {DOMAIN BlockDict(own[b]) : b \in 1..Len(own)}

\* two Items are returned, the first with a key of its own block that the
\* second does not have
C3_Witness ==
    /\ Returned
    /\ Len(items) = 2
    /\ \E key \in DOMAIN MetadataOf(1) :
          key \notin DOMAIN BaseDict /\ key \notin DOMAIN MetadataOf(2)

-----------------------------------------------------------------------------
(* C4 *)

\* C4: for every returned Item and key, the value is that of the last block
\* of the Item's segment that defines the key, whole; without such a block
\* it is the front-matter value; without either the key is absent.
C4_LastBlockWins ==
    Returned =>
        \A j \in 1..Len(items) : \A key \in ClaimKeys :
            LET own == SegmentBlocks(file.nodes, HeadingOf(j))
                defining == {b \in 1..Len(own) : key \in DOMAIN BlockDict(own[b])}
                last == CHOOSE b \in defining : \A x \in defining : x <= b
            IN  IF defining # {}
                THEN /\ key \in DOMAIN MetadataOf(j)
                     /\ MetadataOf(j)[key] = BlockDict(own[last])[key]
                ELSE IF key \in DOMAIN BaseDict
                THEN /\ key \in DOMAIN MetadataOf(j)
                     /\ MetadataOf(j)[key] = BaseDict[key]
                ELSE key \notin DOMAIN MetadataOf(j)

\* a nested front-matter value is overwritten by the second of two blocks
\* of one item that define the same key, itself a nested value
C4_Witness ==
    /\ Returned
    /\ file.fm = "k: {x: 0}"
    /\ \E j \in 1..Len(items) :
          LET own == SegmentBlocks(file.nodes, HeadingOf(j))
          IN  /\ Len(own) = 2
              /\ DOMAIN BlockDict(own[1]) = {"k"}
              /\ BlockDict(own[1]) # BlockDict(own[2])
              /\ "k" \in DOMAIN MetadataOf(j)
              /\ MetadataOf(j)["k"] = DictV([y |-> 1])

-----------------------------------------------------------------------------
(* C6 *)

\* the metadata blocks that no level-1 heading precedes
EarlyBlocks(nodes) ==
    {m \in 1..Len(nodes) :
        /\ ClaimIsMetadataBlock(nodes[m])
        /\ \A h \in H1Positions(nodes) : h > m}

\* C6: when a metadata block precedes every level-1 heading, the call
\* raises, the pass never moves beyond the first such block, it never
\* returns and no Item is ever built.
C6_EarlyBlockRejected ==
    EarlyBlocks(file.nodes) # {} =>
        LET m == Nth(EarlyBlocks(file.nodes), 1)
        IN  /\ pc # "done"
            /\ items = <<>>
            /\ i <= m
            /\ (pc = "raised" => err # "")
            /\ (pc = "raised" /\ base_metadata # None =>
                    i = m /\ err = "AttributeError")
            /\ ProcessFile(file).pc = "raised"
            /\ ProcessFile(file).items = <<>>

C6_Witness ==
    /\ pc = "raised"
    /\ err = "AttributeError"
    /\ i = 2
    /\ ClaimIsMetadataBlock(file.nodes[2])

-----------------------------------------------------------------------------
(* C7 *)

\* a metadata.update of the current item has raised
MergeFailed ==
    /\ pc = "raised"
    /\ metadata # None
    /\ err \in {"TomlDecodeError", "YAMLError", "ValueError", "TypeError"}

\* the heading that opened the current item
CurrentHeading ==
    LET before == {h \in H1Positions(doc) : h < i}
    IN  CHOOSE h \in before : \A x \in before : x <= h

\* C7: after a failed merge the current item's metadata is the front matter
\* merged with the blocks of the item that precede the failing one: the
\* failing block has added and overwritten nothing.
C7_NoPartialMerge ==
    MergeFailed =>
        heap[metadata.ref] =
            MergedWith(BaseDict,
                       SelectSeq(SubSeq(doc, CurrentHeading + 1, i - 1),
                                 ClaimIsMetadataBlock))

-----------------------------------------------------------------------------
(* C9 *)

\* the level-1 headings the loop has gone through
HeadingsSeen == {h \in H1Positions(doc) : h < i}

\* C9 as stated, the count: once the loop has gone through k >= 1 level-1
\* headings, k - 1 Items have been emitted and a title is set.
C9_CountPerHeading ==
    pc = "loop" /\ HeadingsSeen # {} =>
        /\ Len(items) = Cardinality(HeadingsSeen) - 1
        /\ title # None

\* the count, amended: the Items emitted are those of the headings seen with
\* a non-empty title, the last heading seen excepted; that last heading's
\* title is the current one, and an Item is in progress when it is non-empty.
C9_CountPerTitledHeading ==
    pc = "loop" /\ HeadingsSeen # {} =>
        /\ Len(items) =
              Cardinality({h \in TitledPositions(doc) : h < CurrentHeading})
        /\ title = Str(RenderedTitle(doc[CurrentHeading]))

\* a step that changes the result list is a flush: it appends one Item, made
\* of the current title, body and metadata, with a title set, at a level-1
\* heading or at the end of the input
C9_FlushStep ==
    items' # items =>
        /\ pc = "loop"
        /\ title # None /\ title.s # ""
        /\ items' = Append(items, Item(title.s, items_to_md(body), metadata))
        /\ \/ i <= Len(doc) /\ ClaimIsH1(doc[i])
           \/ i > Len(doc)

\* an Item of the result list keeps its title, body and metadata entries
C9_EmittedFrozen ==
    \A j \in 1..Len(items) :
        /\ j <= Len(items')
        /\ items'[j] = items[j]
        /\ heap'[items[j].metadata.ref] = heap[items[j].metadata.ref]

\* C9 amended: Items are appended only by a flush, the count of emitted
\* Items follows the headings with a non-empty title, and an emitted Item
\* never changes.
C9_FlushDiscipline ==
    /\ [][C9_FlushStep]_vars
    /\ []C9_CountPerTitledHeading
    /\ [][C9_EmittedFrozen]_vars

\* an Item is emitted and another is in progress, after a heading without
\* a title went by
C9_Witness ==
    /\ pc = "loop"
    /\ Len(items) = 1
    /\ EmptyHeadingIn(doc)
    /\ title # None /\ title.s # ""
    /\ Cardinality(HeadingsSeen) = 3

-----------------------------------------------------------------------------
(* C5 *)

BatchEnded == bpc \in {"done", "raised"}

\* C5: when process_files has ended, every file that process_file handles
\* without an error has its ItemGroup, whatever the other files do.
C5_ErrorIsolated ==
    BatchEnded =>
        \A f \in 1..Len(files) :
            ProcessFile(files[f]).pc = "done" =>
                \E g \in 1..Len(groups) :
                    /\ groups[g].path = f
                    /\ groups[g].items = ItemsOf(ProcessFile(files[f]))

====
